---- MODULE Spec2Model ----
(***************************************************************************)
(* Environment adapters of mushroom-rl: the Atari adapter with its         *)
(* frame-skip-and-pool wrapper (environments/atari.py) and the Gym adapter  *)
(* (environments/gym_env.py).                                              *)
(*                                                                         *)
(* The simulators (gym / ALE) are external: every raw simulator step       *)
(* returns an arbitrary (frame, reward, absorbing, lives) result.          *)
(* Pixel intensities are counted in halves (2 stands for intensity 1), so  *)
(* that the float average of two frames is an exact integer here.          *)
(***************************************************************************)
EXTENDS Integers, Sequences, FiniteSets, TLC

(***************************************************************************)
(* Bounds of the model.                                                    *)
(***************************************************************************)
MaxHistory == 2
MaxNoOp == 1
MaxLives == 1
MaxSkip == 4
MaxLimit == 2
MaxWrappers == 1
MaxSimState == 2
MaxViews == 3

None == -1

\* Raw simulator frames: two cells each, intensities in halves.
RawFrames == {<<0, 2>>, <<2, 0>>}
Rewards == {0, 1}
Lives == 0..MaxLives
\* Action 0 is NOOP (asserted by Atari.__init__), action 1 may be FIRE.
\* The actions the caller passes to step.
Actions == {0, 2}

\* The zero frame np.zeros(...) of the wrapper's observation buffer.
ZeroFrame == <<0, 0>>

VARIABLES
  \* ---- Atari adapter (atari.py, class Atari) ----
  _history_length,        \* self._history_length
  _max_no_op_actions,     \* self._max_no_op_actions
  frameskip,              \* 'NoFrameskip' in name: self.env is a MaxAndSkip
  grey_and_rescale,       \* self.grey_and_rescale
  fire_is_1,              \* get_action_meanings()[1] == 'FIRE'
  _episode_ends_at_life,  \* self._episode_ends_at_life
  _max_lives,             \* self._max_lives
  _lives,                 \* self._lives
  _force_fire,            \* self._force_fire (None is only tested for truth: FALSE)
  _real_reset,            \* self._real_reset
  _current_no_op,         \* self._current_no_op (None before the first reset)
  _state,                 \* self._state, the frame history deque
  name,                   \* the name the constructor was given
  ATARI_ARI_INSTALLED,    \* whether the import of atariari succeeded
  augmented,              \* self.augmented
  \* ---- frame-skip wrapper (atari.py, class MaxAndSkip) ----
  _skip,                  \* MaxAndSkip._skip
  _max_pooling,           \* MaxAndSkip._max_pooling
  _obs_buffer,            \* MaxAndSkip._obs_buffer, two frames
  \* ---- observation of the last call ----
  calls,                  \* simulator calls made by the last adapter call, in order
  ret,                    \* what the last call returned
  hist,                   \* what the calls made so far did
  trace,                  \* frames self.env.step returned since the last reset
  script,                 \* the simulator's answers to the next raw steps
  \* ---- Gym adapter (gym_env.py, class Gym) ----
  env,                    \* self.env: the wrapper chain, outermost object first
  _not_pybullet,          \* self._not_pybullet
  _first,                 \* self._first
  spaces,                 \* the action and observation space of self.env
  mdp_info,               \* the spaces of the MDPInfo handed to Environment
  \* ---- both adapters ----
  built,                  \* how the constructor ended: "ok" or "failed"
  views                   \* the observations returned so far, as the caller holds them

atariVars == <<_history_length, _max_no_op_actions, frameskip, grey_and_rescale,
               fire_is_1, _episode_ends_at_life, _max_lives, _lives,
               _force_fire, _real_reset, _current_no_op, _state,
               name, ATARI_ARI_INSTALLED, augmented>>

skipVars == <<_skip, _max_pooling, _obs_buffer>>

gymVars == <<env, _not_pybullet, _first, spaces, mdp_info>>

vars == <<atariVars, skipVars, calls, ret, hist, trace, script, gymVars,
          built, views>>

(***************************************************************************)
(* The simulator: results of raw steps.                                    *)
(***************************************************************************)
\* What the simulator answers to the raw step whose results a call reads:
\* any frame, absorbing flag and lives count.  The reward is not free of the
\* frame (1 with the frame <<2, 0>>, else 0): no line of the adapters reads
\* one to decide about the other.
RawResult ==
  {x \in [obs : RawFrames, reward : Rewards, absorbing : BOOLEAN, lives : Lives] :
     x.reward = (IF x.obs = <<2, 0>> THEN 1 ELSE 0)}

\* An answer to a raw step that is not the last of its loop.
OpenAnswer(f) ==
  [obs |-> f, reward |-> 0, absorbing |-> FALSE, lives |-> MaxLives]

RECURSIVE OpenRuns(_, _)
\* Sequences of n answers, none absorbing, to the first raw steps of a loop
\* of k.  What the adapter never reads of such an answer is left at one
\* value: its info (overwritten unread, atari.py:32) and, before the last two
\* iterations, its frame (atari.py:33-36).  Its reward is left at 0: the sum
\* over all answers is the subject of SpecSkip.
OpenRuns(n, k) ==
  IF n = 0 THEN {<<>>}
  ELSE {Append(p, OpenAnswer(f)) :
          p \in OpenRuns(n - 1, k),
          f \in (IF n < k - 1 THEN {<<0, 2>>} ELSE RawFrames)}

\* What the simulator can answer to the raw steps of one loop of at most k
\* iterations that stops at the first absorbing answer.
Runs(k) ==
  UNION {{Append(p, r) : p \in OpenRuns(n - 1, k),
                         r \in {x \in RawResult : n < k => x.absorbing}}
         : n \in 1..k}

\* Runs, tabulated for the loop lengths of the model.
RunsOf == [k \in 1..MaxHistory |-> Runs(k)]

(***************************************************************************)
(* MaxAndSkip.step                                                         *)
(***************************************************************************)
Max(a, b) == IF a >= b THEN a ELSE b

\* numpy max(axis=0) of the two buffered frames
PoolMax(buf) == [c \in 1..2 |-> Max(buf[1][c], buf[2][c])]

\* numpy mean(axis=0) of the two buffered frames (intensities in halves)
PoolMean(buf) == [c \in 1..2 |-> (buf[1][c] + buf[2][c]) \div 2]

RECURSIVE SkipLoop_nobreak(_, _, _, _, _)
\* SkipLoop without the break on an absorbing answer
SkipLoop_nobreak(i, skip, buf, total, run) ==
  IF i >= skip THEN [buf |-> buf, total |-> total, last |-> i]
  ELSE LET r == run[i + 1]
           b0 == IF i = skip - 2 THEN [buf EXCEPT ![1] = r.obs] ELSE buf
           b1 == IF i = skip - 1 THEN [b0 EXCEPT ![2] = r.obs] ELSE b0
       IN SkipLoop_nobreak(i + 1, skip, b1, total + r.reward, run)

RECURSIVE SkipLoop(_, _, _, _, _)
\* The for loop of MaxAndSkip.step from iteration i (0-based) on: run[i + 1]
\* is the answer of the raw step of iteration i.
SkipLoop(i, skip, buf, total, run) ==
  IF i >= skip THEN [buf |-> buf, total |-> total, last |-> i]
  ELSE LET r == run[i + 1]
           b0 == IF i = skip - 2 THEN [buf EXCEPT ![1] = r.obs] ELSE buf
           b1 == IF i = skip - 1 THEN [b0 EXCEPT ![2] = r.obs] ELSE b0
       IN IF r.absorbing
            THEN [buf |-> b1, total |-> total + r.reward, last |-> i + 1]
            ELSE SkipLoop(i + 1, skip, b1, total + r.reward, run)

\* MaxAndSkip.step: the returned tuple, the new buffer, and the number of raw
\* steps issued.
MaxAndSkipStep(skip, pooling, buf, run) ==
  LET l == CHOOSE x \in {SkipLoop(0, skip, buf, 0, run)} : TRUE
  IN [frame     |-> IF pooling THEN PoolMax(l.buf) ELSE PoolMean(l.buf),
      reward    |-> l.total,
      absorbing |-> run[l.last].absorbing,
      lives     |-> run[l.last].lives,
      buf       |-> l.buf,
      issued    |-> l.last]

(***************************************************************************)
(* Frame pipeline (utils/frames.py)                                        *)
(***************************************************************************)
\* preprocess_frame: resize and greyscale when grey_and_rescale, else the
\* frame as it is.  The two cells are weighted into one grey cell.
preprocess_frame(obs, grey) ==
  IF grey THEN <<(obs[1] + 3 * obs[2]) \div 4>> ELSE obs

\* DequeAppend putting the new frame at the old end (appendleft)
DequeAppend_left(d, x, maxlen) ==
  IF maxlen = 0 THEN d
  ELSE IF Len(d) >= maxlen THEN <<x>> \o SubSeq(d, 1, Len(d) - 1)
  ELSE <<x>> \o d

\* deque.append on a deque built with maxlen
DequeAppend(d, x, maxlen) ==
  IF maxlen = 0 THEN d
  ELSE IF Len(d) >= maxlen THEN Append(Tail(d), x)
  ELSE Append(d, x)

\* ListOf handing on the deque itself
ListOf_same(d) == [shared |-> TRUE, frames |-> d]

\* list(self._state): a new list object, holding the frames the deque holds
\* when it is made
ListOf(d) == [shared |-> FALSE, frames |-> d]

\* The frames a list shows when it is read while the deque is d: its own,
\* or those of the deque when it is the deque itself.
FramesOf(list, d) == IF list.shared THEN d ELSE list.frames

\* LazyFrames(list(self._state), self._history_length): a list copy of the deque
LazyFrames(d) == [i \in 1..Len(d) |-> d[i]]

(***************************************************************************)
(* Atari adapter                                                           *)
(***************************************************************************)
Call(target, op, action) == [target |-> target, op |-> op, action |-> action]

\* What a call returned and was given: op - the call; action - its argument
\* (the action of a step, the state of a Gym reset); no_op - the no-op count
\* a reset drew; obs, reward, absorbing, lives - the returned observation,
\* reward, absorbing flag and info['ale.lives']; sim_obs, sim_reward,
\* sim_absorbing - what self.env returned to the call; path - the path a
\* reset took; issued - the raw steps the simulator made for the action of a
\* step; extra - the raw frame an augmented adapter returns with a step;
\* raised - the call ended with an error instead of returning.
NoRet == [op |-> "init", action |-> None, no_op |-> None, obs |-> <<>>, reward |-> 0, absorbing |-> FALSE,
          lives |-> None, sim_obs |-> ZeroFrame, sim_reward |-> 0,
          sim_absorbing |-> FALSE, path |-> "none", issued |-> 0,
          extra |-> None, raised |-> FALSE]

\* stepped - a step was made; last_abs - what the simulator reported as
\* absorbing in the most recent step; stopped - stop() was called after the
\* most recent step; rendered - Gym.render was called; closed - Gym.stop
\* invoked the simulator's close.
NoHist == [stepped |-> FALSE, last_abs |-> FALSE, stopped |-> FALSE,
           rendered |-> FALSE, closed |-> FALSE]

\* The names the constructor is asked for: known - gym registers the game;
\* noframeskip - 'NoFrameskip' is in the name; augmented - '-Augmented' is.
Names == [known : BOOLEAN, noframeskip : BOOLEAN, augmented : BOOLEAN]

\* name.replace('-Augmented', '')
StripAugmented(n) == [n EXCEPT !.augmented = FALSE]

\* gym.make(name) returns an environment for the ids gym registers, none of
\* which has '-Augmented' in it, and raises for every other name.
GymMakes(n) == n.known /\ ~n.augmented

\* Configuration stripping '-Augmented' also when atariari is missing
Configuration_strip(n, ari) ==
  IF n.noframeskip
    THEN [frameskip |-> TRUE, made |-> n, augmented |-> FALSE]
  ELSE IF n.augmented /\ ari
    THEN [frameskip |-> FALSE, made |-> StripAugmented(n), augmented |-> TRUE]
  ELSE [frameskip |-> FALSE, made |-> StripAugmented(n), augmented |-> FALSE]

\* The branch of Atari.__init__ a name takes: whether self.env is a
\* MaxAndSkip, the name handed to gym.make, and self.augmented.  (With or
\* without an AtariARIWrapper an augmented adapter differs only in the info
\* labels, which the adapter hands on unread.)
Configuration(n, ari) ==
  IF n.noframeskip
    THEN [frameskip |-> TRUE, made |-> n, augmented |-> FALSE]
  ELSE IF n.augmented /\ ari
    THEN [frameskip |-> FALSE, made |-> StripAugmented(n), augmented |-> TRUE]
  ELSE [frameskip |-> FALSE, made |-> n, augmented |-> FALSE]

\* SkipArg one raw step longer than the history
SkipArg_more(history_length) == history_length + 1

\* MaxAndSkip(gym.make(name), history_length, max_pooling): the skip argument
SkipArg(history_length) == history_length

\* The fields Atari.__init__ sets after the configuration is chosen, with the
\* default width, height, ends_at_life and max_pooling
AtariFields ==
  /\ _history_length \in 1..MaxHistory
  /\ _max_no_op_actions = MaxNoOp
  /\ grey_and_rescale = TRUE
  /\ fire_is_1 \in BOOLEAN
  /\ _episode_ends_at_life = FALSE
  /\ _max_lives = MaxLives
  /\ _lives = _max_lives
  /\ _force_fire = FALSE
  /\ _real_reset = TRUE
  /\ _current_no_op = None
  /\ _state = <<>>
  /\ _skip = (IF frameskip THEN SkipArg(_history_length) ELSE 0)
  /\ _max_pooling = TRUE
  /\ _obs_buffer = <<ZeroFrame, ZeroFrame>>
  /\ calls = <<>>
  /\ hist = NoHist
  /\ trace = <<>>
  /\ script = <<>>
  /\ env = <<>>
  /\ _not_pybullet = TRUE
  /\ _first = TRUE
  /\ spaces = <<>>
  /\ mdp_info = None
  /\ views = <<>>

\* Atari.__init__ for the names gym registers, without '-Augmented'
AtariInit ==
  /\ frameskip \in BOOLEAN
  /\ name = [known |-> TRUE, noframeskip |-> frameskip, augmented |-> FALSE]
  /\ ATARI_ARI_INSTALLED = TRUE
  /\ augmented = FALSE
  /\ built = "ok"
  /\ ret = NoRet
  /\ AtariFields

\* Atari.__init__ for every name: the construction fails when gym.make
\* raises, and then no adapter exists.
AtariNew ==
  /\ name \in Names
  /\ ATARI_ARI_INSTALLED \in BOOLEAN
  /\ \E c \in {Configuration(name, ATARI_ARI_INSTALLED)} :
       IF GymMakes(c.made)
         THEN /\ built = "ok"
              /\ frameskip = c.frameskip
              /\ augmented = c.augmented
              /\ ret = NoRet
         ELSE /\ built = "failed"
              /\ frameskip = FALSE
              /\ augmented = FALSE
              /\ ret = [NoRet EXCEPT !.raised = TRUE]
  /\ AtariFields

\* NoOpDraws with the upper end of randint taken as inclusive
NoOpDraws_wide(max_no_op) == 0..(max_no_op + 1)

\* np.random.randint(self._max_no_op_actions + 1)
NoOpDraws(max_no_op) == 0..max_no_op

\* ColdStart one copy short
ColdStart_short(frame, history_length) ==
  [i \in 1..(history_length - 1) |-> frame]

\* the deque of history_length copies of the frame a full reset builds
ColdStart(frame, history_length) == [i \in 1..history_length |-> frame]

\* if self._real_reset: the full reset path
FullReset(real_reset) == real_reset

\* Atari.reset: frame is what a simulator reset answers, n the no-op draw.
AtariReset(frame, n) ==
  /\ IF FullReset(_real_reset)
       THEN /\ _state' = ColdStart(preprocess_frame(frame, grey_and_rescale),
                                   _history_length)
            /\ _lives' = _max_lives
            /\ calls' = <<Call("env", "reset", None)>>
       ELSE /\ UNCHANGED <<_state, _lives>>
            /\ calls' = <<>>
  /\ _force_fire' = fire_is_1
  /\ _current_no_op' = n
  /\ ret' = [NoRet EXCEPT !.op = "reset", !.no_op = n,
                          !.obs = LazyFrames(_state'),
                          !.sim_obs = (IF FullReset(_real_reset) THEN frame
                                       ELSE ZeroFrame),
                          !.path = (IF FullReset(_real_reset) THEN "full"
                                    ELSE "soft")]
  /\ UNCHANGED <<_history_length, _max_no_op_actions, frameskip,
                 grey_and_rescale, fire_is_1, _episode_ends_at_life,
                 _max_lives, _real_reset, skipVars, hist>>

\* self.env.step(action): through the frame-skip wrapper when there is one,
\* else one step of the simulator.
EnvStep(run) ==
  IF frameskip
    THEN MaxAndSkipStep(_skip, _max_pooling, _obs_buffer, run)
    ELSE [frame |-> run[1].obs, reward |-> run[1].reward,
          absorbing |-> run[1].absorbing, lives |-> run[1].lives,
          buf |-> _obs_buffer, issued |-> 1]

\* Priming with the no-ops issued before the FIRE
Priming_swapped(fire, no_op) ==
  [i \in 1..no_op |-> [target |-> "env.env", op |-> "step", action |-> 0]]
    \o (IF fire THEN <<[target |-> "env.env", op |-> "step", action |-> 1]>>
        ELSE <<>>)

\* The priming steps of Atari.step, taken on self.env.env: one FIRE when
\* force-fire is armed, then a no-op per unit of the no-op counter.
Priming(fire, no_op) ==
  (IF fire THEN <<Call("env.env", "step", 1)>> ELSE <<>>)
    \o [i \in 1..no_op |-> Call("env.env", "step", 0)]

\* LivesChanged seeing only a gain of lives
LivesChanged_gain(info_lives, stored) == info_lives > stored

\* info['ale.lives'] != self._lives
LivesChanged(info_lives, stored) == info_lives # stored

\* the absorbing flag Atari.step returns
StepAbsorbing(sim_absorbing, changed, ends) ==
  IF changed /\ ends THEN TRUE ELSE sim_absorbing

\* RealResetAfter storing the flag after the life-loss override
RealResetAfter_returned(sim_absorbing, returned_absorbing) == returned_absorbing

\* self._real_reset = absorbing, with the flag self.env.step returned
RealResetAfter(sim_absorbing, returned_absorbing) == sim_absorbing

\* LivesAfter counting the stored lives down by one
LivesAfter_dec(changed, info_lives, stored) ==
  IF changed THEN stored - 1 ELSE stored

\* self._lives after the lives check of Atari.step
LivesAfter(changed, info_lives, stored) ==
  IF changed THEN info_lives ELSE stored

\* CountDown issuing the no-ops without counting them down
CountDown_kept(no_op) == no_op

RECURSIVE CountDown(_)
\* self._current_no_op after `while self._current_no_op > 0: ... -= 1`
CountDown(no_op) == IF no_op > 0 THEN CountDown(no_op - 1) ELSE no_op

\* the reward Atari.step returns: that of self.env.step(action) alone
StepReward(sim_reward, n_priming) == sim_reward

\* Atari.step: run is what the simulator answers to the raw steps of the
\* caller's action (the answers to the priming steps are never read).
AtariStep(action, run) ==
  /\ _current_no_op # None    \* before the first reset: None > 0 raises
  /\ \E r \in {EnvStep(run)} :
     LET changed == LivesChanged(r.lives, _lives)
         absorbing == StepAbsorbing(r.absorbing, changed, _episode_ends_at_life)
         priming == Priming(_force_fire, _current_no_op)
     IN /\ calls' = Append(priming, Call("env", "step", action))
        /\ _current_no_op' = CountDown(_current_no_op)
        /\ _real_reset' = RealResetAfter(r.absorbing, absorbing)
        /\ _lives' = LivesAfter(changed, r.lives, _lives)
        /\ _force_fire' = (IF changed THEN fire_is_1 ELSE FALSE)
        /\ _state' = DequeAppend(_state,
                                 preprocess_frame(r.frame, grey_and_rescale),
                                 _history_length)
        /\ _obs_buffer' = r.buf
        /\ ret' = [op |-> "step", action |-> action, no_op |-> None,
                   obs |-> LazyFrames(_state'),
                   reward |-> StepReward(r.reward, Len(priming)),
                   absorbing |-> absorbing,
                   lives |-> r.lives, sim_obs |-> r.frame,
                   sim_reward |-> r.reward,
                   sim_absorbing |-> r.absorbing, path |-> "none",
                   issued |-> r.issued,
                   extra |-> (IF augmented THEN r.frame ELSE None),
                   raised |-> FALSE]
        /\ hist' = [hist EXCEPT !.stepped = TRUE, !.last_abs = r.absorbing,
                                !.stopped = FALSE]
  /\ UNCHANGED <<_history_length, _max_no_op_actions, frameskip,
                 grey_and_rescale, fire_is_1, _episode_ends_at_life,
                 _max_lives, _skip, _max_pooling>>

\* Atari.stop: when self.env.close() raises, the error leaves stop before
\* the flag is set.
AtariStop(raises) ==
  /\ _real_reset' = (IF raises THEN _real_reset ELSE TRUE)
  /\ calls' = <<Call("env", "close", None)>>
  /\ ret' = [NoRet EXCEPT !.op = "stop", !.raised = raises]
  /\ hist' = [hist EXCEPT !.stopped = TRUE]
  /\ UNCHANGED <<_history_length, _max_no_op_actions, frameskip,
                 grey_and_rescale, fire_is_1, _episode_ends_at_life,
                 _max_lives, _lives, _force_fire, _current_no_op, _state,
                 skipVars>>

\* Atari.set_episode_end
set_episode_end(b) ==
  /\ _episode_ends_at_life' = b
  /\ calls' = <<>>
  /\ ret' = [NoRet EXCEPT !.op = "set_episode_end"]
  /\ UNCHANGED <<_history_length, _max_no_op_actions, frameskip,
                 grey_and_rescale, fire_is_1, _max_lives, _lives, _force_fire,
                 _real_reset, _current_no_op, _state, skipVars, hist>>

Init == AtariInit

Reset ==
  \E frame \in RawFrames, n \in NoOpDraws(_max_no_op_actions) :
    AtariReset(frame, n)

Step ==
  \E action \in Actions, run \in RunsOf[IF frameskip THEN _skip ELSE 1] :
    AtariStep(action, run)

\* stop(): the simulator's close returns or raises
Stop == \E raises \in BOOLEAN : AtariStop(raises)

SetEpisodeEnd == \E b \in BOOLEAN : set_episode_end(b)

\* what no call of the Atari adapter changes
fixedVars == <<name, ATARI_ARI_INSTALLED, augmented, gymVars, built>>

Next ==
  \/ Reset /\ UNCHANGED <<trace, script, fixedVars, views>>
  \/ Step /\ UNCHANGED <<trace, script, fixedVars, views>>
  \/ Stop /\ UNCHANGED <<trace, script, fixedVars, views>>
  \/ SetEpisodeEnd /\ UNCHANGED <<trace, script, fixedVars, views>>

Spec == Init /\ [][Next]_vars

(***************************************************************************)
(* Construction for every name; on the adapters that were constructed,    *)
(* the calls that precede the first step of an episode.                    *)
(***************************************************************************)
NextNew ==
  \/ built = "ok" /\ Reset /\ UNCHANGED <<trace, script, fixedVars, views>>
  \/ built = "ok" /\ Stop /\ UNCHANGED <<trace, script, fixedVars, views>>
  \/ built = "ok" /\ SetEpisodeEnd
                  /\ UNCHANGED <<trace, script, fixedVars, views>>

SpecNew == AtariNew /\ [][NextNew]_vars

(***************************************************************************)
(* Interleavings of reset and step, with the history of the frames         *)
(* self.env.step returned to the steps made since the last reset, up to    *)
(* history_length + 1 steps in a row.                                      *)
(***************************************************************************)
NextTraced ==
  \/ Reset /\ trace' = <<>> /\ UNCHANGED <<script, fixedVars, views>>
  \/ Step /\ Len(trace) <= _history_length
          /\ trace' = Append(trace, ret'.sim_obs)
          /\ UNCHANGED <<script, fixedVars, views>>

SpecTraced == Init /\ [][NextTraced]_vars

(***************************************************************************)
(* The first MaxViews calls of reset and step, with the observations they  *)
(* returned as the caller holds them: the list each was built on and the   *)
(* frames it showed when it was returned.                                  *)
(***************************************************************************)
View(list, shown) == [list |-> list, shown |-> shown]

NextViews ==
  \/ /\ Len(views) < MaxViews
     /\ Reset
     /\ views' = Append(views, View(ListOf(_state'), ret'.obs))
     /\ UNCHANGED <<trace, script, fixedVars>>
  \/ /\ Len(views) < MaxViews
     /\ Step
     /\ views' = Append(views, View(ListOf(_state'), ret'.obs))
     /\ UNCHANGED <<trace, script, fixedVars>>

SpecViews == Init /\ [][NextViews]_vars

(***************************************************************************)
(* The frame-skip wrapper on its own, over a scripted simulator.  The      *)
(* frame answered to iteration i of a loop is labelled with i, so that the *)
(* frames a wrapped step pools can be told apart; rewards, absorbing flags *)
(* and lives counts are free.  An answer scripted after an absorbing one   *)
(* is what the simulator would give if it were stepped again.              *)
(***************************************************************************)
SkipRewards == {0, 1, 2}

\* The frame of iteration i (0-based) of a loop; no cell of it is 0.
FrameAt(i) == <<2 * (i + 1), 2 * (MaxSkip + 1 - i)>>

SkipAnswers(i) == [obs : {FrameAt(i)}, reward : SkipRewards,
                   absorbing : BOOLEAN, lives : {0, MaxLives}]

AfterAbsorbing(i) == [obs |-> FrameAt(i), reward |-> 1, absorbing |-> FALSE,
                      lives |-> MaxLives]

\* MaxAndSkip.__init__, for every skip and pooling
SkipInit ==
  /\ _skip \in 1..MaxSkip
  /\ _max_pooling \in BOOLEAN
  /\ _obs_buffer = <<ZeroFrame, ZeroFrame>>
  /\ script = <<>>
  /\ calls = <<>>
  /\ ret = NoRet
  /\ hist = NoHist
  /\ trace = <<>>
  /\ env = <<>>
  /\ _history_length = _skip
  /\ _max_no_op_actions = MaxNoOp
  /\ frameskip = TRUE
  /\ grey_and_rescale = TRUE
  /\ fire_is_1 = FALSE
  /\ _episode_ends_at_life = FALSE
  /\ _max_lives = MaxLives
  /\ _lives = MaxLives
  /\ _force_fire = FALSE
  /\ _real_reset = TRUE
  /\ _current_no_op = None
  /\ _state = <<>>
  /\ name = [known |-> TRUE, noframeskip |-> TRUE, augmented |-> FALSE]
  /\ ATARI_ARI_INSTALLED = TRUE
  /\ augmented = FALSE
  /\ _not_pybullet = TRUE
  /\ _first = TRUE
  /\ spaces = <<>>
  /\ mdp_info = None
  /\ built = "ok"
  /\ views = <<>>

\* The simulator settles its answer to one more raw step; the record of
\* the wrapped step made before is dropped.
SimAnswer ==
  /\ Len(script) < _skip
  /\ \E r \in SkipAnswers(Len(script)) :
       script' = Append(script,
                        IF \E j \in 1..Len(script) : script[j].absorbing
                          THEN AfterAbsorbing(Len(script)) ELSE r)
  /\ calls' = <<>>
  /\ ret' = NoRet
  /\ UNCHANGED <<atariVars, skipVars, hist, trace, gymVars, built, views>>

\* MaxAndSkip.step(action) against the scripted simulator
SkipStep(action) ==
  /\ Len(script) = _skip
  /\ \E r \in {MaxAndSkipStep(_skip, _max_pooling, _obs_buffer, script)} :
       /\ _obs_buffer' = r.buf
       /\ calls' = [i \in 1..r.issued |->
                      [target |-> "env", op |-> "step", action |-> action,
                       result |-> script[i]]]
       /\ ret' = [NoRet EXCEPT !.op = "skip_step", !.action = action,
                               !.sim_obs = r.frame, !.sim_reward = r.reward,
                               !.sim_absorbing = r.absorbing,
                               !.lives = r.lives]
  /\ script' = <<>>
  /\ UNCHANGED <<atariVars, _skip, _max_pooling, hist, trace, gymVars,
                 built, views>>

\* MaxAndSkip.reset: the simulator's reset, the buffer is left as it is
SkipReset(frame) ==
  /\ script = <<>>
  /\ calls' = <<Call("env", "reset", None)>>
  /\ ret' = [NoRet EXCEPT !.op = "skip_reset", !.sim_obs = frame]
  /\ UNCHANGED <<atariVars, skipVars, hist, trace, script, gymVars,
                 built, views>>

NextSkip ==
  \/ SimAnswer
  \/ \E action \in Actions : SkipStep(action)
  \/ \E frame \in RawFrames : SkipReset(frame)

SpecSkip == SkipInit /\ [][NextSkip]_vars

(***************************************************************************)
(* Gym adapter.  What gym.make and the wrappers return is a chain of       *)
(* objects, each holding the next as its .env; the last is the simulator.  *)
(* Reading an attribute a wrapper lacks falls through to the object        *)
(* beneath, assigning one sets it on the object assigned to.  A TimeLimit  *)
(* counts the steps since the last reset and reports the episode ended     *)
(* once they reach its own _max_episode_steps.  The simulator walks along  *)
(* 0..MaxSimState by the action and ends at MaxSimState.                   *)
(***************************************************************************)
Inf == -2

\* the actions the caller passes to the Gym adapter, each as the array [a]
GymActions == {<<0>>, <<1>>}

SimLayer == [kind |-> "Sim", limit |-> None, elapsed |-> 0, state |-> None]

TimeLimitLayer(limit) ==
  [kind |-> "TimeLimit", limit |-> limit, elapsed |-> 0, state |-> None]

WrapperLayer == [kind |-> "Wrapper", limit |-> None, elapsed |-> 0, state |-> None]

\* gym.make(name): a TimeLimit over the simulator when the registry gives the
\* environment a max_episode_steps
GymMake(has_limit) ==
  IF has_limit THEN <<TimeLimitLayer(MaxLimit), SimLayer>> ELSE <<SimLayer>>

RECURSIVE ApplyWrappers(_, _)
\* for wrapper, args in zip(wrappers, wrappers_args): self.env = wrapper(self.env, ...)
ApplyWrappers(chain, n) ==
  IF n = 0 THEN chain ELSE ApplyWrappers(<<WrapperLayer>> \o chain, n - 1)

\* self.env._max_episode_steps = np.inf
SetMaxEpisodeSteps(chain, v) == [chain EXCEPT ![1].limit = v]

\* self.env.state = state
SetState(chain, v) == [chain EXCEPT ![1].state = v]

\* np.atleast_1d of a scalar
atleast_1d(x) == <<x>>

\* self._convert_action for a Discrete action space: lambda a: a[0]
_convert_action(a) == a[1]

\* self._convert_action: a[0] for a Discrete action space, else the array
ConvertAction(action_space, a) ==
  IF action_space.kind = "Discrete" THEN _convert_action(a) ELSE a

\* The spaces of x_mushroom_rl.utils.spaces
Discrete(n) == [kind |-> "Discrete", n |-> n]

Box(low, high, shape) ==
  [kind |-> "Box", low |-> low, high |-> high, shape |-> shape]

\* The spaces a gym environment can declare: n, low, high and shape are None
\* where the kind has none.
GymSpace(kind, n, low, high, shape) ==
  [kind |-> kind, n |-> n, low |-> low, high |-> high, shape |-> shape]

GymSpaces ==
  {GymSpace("Discrete", 2, None, None, None),
   GymSpace("Discrete", 3, None, None, None),
   GymSpace("Box", None, <<0>>, <<1>>, <<1>>),
   GymSpace("Box", None, <<0, 1>>, <<2, 1>>, <<2>>),
   GymSpace("MultiDiscrete", None, None, None, None),
   GymSpace("Tuple", None, None, None, None),
   GymSpace("Dict", None, None, None, None)}

ValueError == [kind |-> "ValueError"]

\* _convert_gym_space taking every space that is not Discrete for a Box
_convert_gym_space_else(space) ==
  IF space.kind = "Discrete" THEN Discrete(space.n)
  ELSE Box(space.low, space.high, space.shape)

\* Gym._convert_gym_space
_convert_gym_space(space) ==
  IF space.kind = "Discrete" THEN Discrete(space.n)
  ELSE IF space.kind = "Box" THEN Box(space.low, space.high, space.shape)
  ELSE ValueError

\* assert not isinstance(space, gym_spaces.MultiDiscrete)
AssertNotMultiDiscrete(space) == space.kind # "MultiDiscrete"

\* The wrapper chain Gym.__init__ builds
GymConstruct(has_limit, n_wrappers) ==
  SetMaxEpisodeSteps(ApplyWrappers(GymMake(has_limit), n_wrappers), Inf)

\* the simulator's state: the state attribute of the innermost object
SimState(chain) == chain[Len(chain)].state

\* self.env.reset(): every TimeLimit restarts its count, the simulator
\* starts from s0
ChainReset(chain, s0) ==
  [i \in 1..Len(chain) |->
     IF chain[i].kind = "TimeLimit" THEN [chain[i] EXCEPT !.elapsed = 0]
     ELSE IF chain[i].kind = "Sim" THEN [chain[i] EXCEPT !.state = s0]
     ELSE chain[i]]

SimNext(s, a) == IF s + a >= MaxSimState THEN MaxSimState ELSE s + a

\* TimeLimit.step: past the limit the episode is reported ended
LimitReached(layer) ==
  /\ layer.kind = "TimeLimit"
  /\ layer.limit # Inf
  /\ layer.elapsed >= layer.limit

\* self.env.step(action) through the chain
ChainStep(chain, a) ==
  LET stepped == [i \in 1..Len(chain) |->
                    IF chain[i].kind = "TimeLimit"
                      THEN [chain[i] EXCEPT !.elapsed = @ + 1]
                    ELSE IF chain[i].kind = "Sim"
                      THEN [chain[i] EXCEPT !.state = SimNext(@, a)]
                    ELSE chain[i]]
      sim_done == SimState(stepped) = MaxSimState
  IN [chain |-> stepped,
      obs |-> SimState(stepped),
      reward |-> a,
      sim_absorbing |-> sim_done,
      absorbing |-> sim_done \/ \E i \in 1..Len(stepped) : LimitReached(stepped[i])]

GymInit ==
  /\ \E has_limit \in BOOLEAN, n_wrappers \in 0..MaxWrappers :
       env = GymConstruct(has_limit, n_wrappers)
  /\ _not_pybullet \in BOOLEAN
  /\ _first = TRUE
  /\ spaces \in [action_space : GymSpaces, observation_space : GymSpaces]
  /\ \E a \in {_convert_gym_space(spaces.action_space)},
        o \in {_convert_gym_space(spaces.observation_space)} :
       IF /\ AssertNotMultiDiscrete(spaces.observation_space)
          /\ AssertNotMultiDiscrete(spaces.action_space)
          /\ a # ValueError
          /\ o # ValueError
         THEN /\ built = "ok"
              /\ mdp_info = [observation_space |-> o, action_space |-> a]
              /\ ret = [NoRet EXCEPT !.op = "gym_init"]
         ELSE /\ built = "failed"
              /\ mdp_info = None
              /\ ret = [NoRet EXCEPT !.op = "gym_init", !.raised = TRUE]
  /\ calls = <<>>
  /\ hist = NoHist
  /\ trace = <<>>
  /\ script = <<>>
  /\ views = <<>>
  /\ name = [known |-> TRUE, noframeskip |-> FALSE, augmented |-> FALSE]
  /\ ATARI_ARI_INSTALLED = TRUE
  /\ augmented = FALSE
  /\ _history_length = 1
  /\ _max_no_op_actions = MaxNoOp
  /\ frameskip = FALSE
  /\ grey_and_rescale = TRUE
  /\ fire_is_1 = FALSE
  /\ _episode_ends_at_life = FALSE
  /\ _max_lives = MaxLives
  /\ _lives = MaxLives
  /\ _force_fire = FALSE
  /\ _real_reset = TRUE
  /\ _current_no_op = None
  /\ _state = <<>>
  /\ _skip = 0
  /\ _max_pooling = TRUE
  /\ _obs_buffer = <<ZeroFrame, ZeroFrame>>

\* Gym.reset(state): state is None when omitted; s0 is where the simulator's
\* own reset starts.
GymReset(state, s0) ==
  /\ IF state = None
       THEN /\ env' = ChainReset(env, s0)
            /\ ret' = [NoRet EXCEPT !.op = "gym_reset", !.action = state,
                                    !.obs = atleast_1d(s0), !.sim_obs = s0]
       ELSE /\ env' = SetState(ChainReset(env, s0), state)
            /\ ret' = [NoRet EXCEPT !.op = "gym_reset", !.action = state,
                                    !.obs = atleast_1d(state), !.sim_obs = s0]
  /\ UNCHANGED <<atariVars, skipVars, calls, hist, trace, script,
                 _not_pybullet, _first, spaces, mdp_info, built, views>>

\* Gym.step(action): the simulator moves by the number it is handed, or by
\* the only cell of the array it is handed.
GymStep(action) ==
  /\ SimState(env) # None      \* the simulator was reset
  /\ \A i \in 1..Len(env) : env[i].elapsed <= MaxLimit
  /\ \E a \in {ConvertAction(mdp_info.action_space, action)} :
     \E r \in {ChainStep(env, IF mdp_info.action_space.kind = "Discrete"
                                THEN a ELSE a[1])} :
       /\ env' = r.chain
       /\ ret' = [NoRet EXCEPT !.op = "gym_step",
                               !.action = a,
                               !.obs = atleast_1d(r.obs), !.sim_obs = r.obs,
                               !.reward = r.reward, !.sim_reward = r.reward,
                               !.absorbing = r.absorbing,
                               !.sim_absorbing = r.sim_absorbing]
  /\ UNCHANGED <<atariVars, skipVars, calls, hist, trace, script,
                 _not_pybullet, _first, spaces, mdp_info, built, views>>

\* RenderReaches rendering once whatever the backend
RenderReaches_once(first, not_pybullet) == first

\* if self._first or self._not_pybullet
RenderReaches(first, not_pybullet) == first \/ not_pybullet

\* Gym.render(mode)
GymRender(mode) ==
  /\ IF RenderReaches(_first, _not_pybullet)
       THEN /\ calls' = <<Call("env", "render", mode)>>
            /\ _first' = FALSE
       ELSE /\ calls' = <<>>
            /\ UNCHANGED _first
  /\ ret' = [NoRet EXCEPT !.op = "gym_render"]
  /\ hist' = [hist EXCEPT !.rendered = TRUE]
  /\ UNCHANGED <<atariVars, skipVars, trace, script, env, _not_pybullet,
                 spaces, mdp_info, built, views>>

\* Gym.stop: self.env.close() is called unless the backend is pybullet, and
\* the bare except swallows what it raises.
GymStop(raises) ==
  /\ IF _not_pybullet
       THEN /\ calls' = <<Call("env", "close", None)>>
            /\ hist' = [hist EXCEPT !.stopped = TRUE, !.closed = TRUE]
       ELSE /\ calls' = <<>>
            /\ hist' = [hist EXCEPT !.stopped = TRUE]
  /\ ret' = [NoRet EXCEPT !.op = "gym_stop", !.raised = FALSE]
  /\ UNCHANGED <<atariVars, skipVars, trace, script, gymVars, built, views>>

NextGym ==
  \/ /\ built = "ok"
     /\ \E state \in {None} \cup (0..MaxSimState), s0 \in {0, 1} :
          GymReset(state, s0)
  \/ /\ built = "ok"
     /\ \E action \in GymActions : GymStep(action)
  \/ /\ built = "ok"
     /\ GymRender("human")
  \/ /\ built = "ok"
     /\ \E raises \in BOOLEAN : GymStop(raises)

SpecGym == GymInit /\ [][NextGym]_vars

(***************************************************************************)
(* Properties of the Atari adapter                                         *)
(***************************************************************************)
\* The last H elements of a sequence of at least H elements.
LastFrames(q, h) == SubSeq(q, Len(q) - h + 1, Len(q))

\* C1: a step whose info reports fewer lives than the adapter stored returns
\* absorbing when ends_at_life is set, whatever the simulator reported;
\* otherwise it returns the simulator's absorbing flag and force-fire is
\* armed again when action 1 is FIRE.
C1_LifeLoss ==
  [][(ret'.op = "step" /\ ret'.lives < _lives) =>
       IF _episode_ends_at_life
         THEN ret'.absorbing
         ELSE /\ ret'.absorbing = ret'.sim_absorbing
              /\ (fire_is_1 => _force_fire')]_vars

C1_Witness ==
  /\ ret.op = "step" /\ _episode_ends_at_life
  /\ ret.lives = 0 /\ ret.absorbing /\ ~ret.sim_absorbing

\* C2 as claimed: a reset with no stop() since the last step is a full reset
\* exactly when it is the first reset or the simulator reported absorbing on
\* the most recent step.
C2_AsClaimed ==
  [][(ret'.op = "reset" /\ ~hist.stopped) =>
       (ret'.path = "full" <=> (_current_no_op = None \/ hist.last_abs))]_vars

\* C2 as amended: a reset with no stop() since the last step resets the
\* simulator, refills the buffer and restores the lives exactly when no step
\* was made yet or the simulator reported absorbing on the most recent step;
\* any other reset calls no simulator reset and leaves buffer and lives alone.
C2_ResetPath ==
  [][(ret'.op = "reset" /\ ~hist.stopped) =>
       IF ~hist.stepped \/ hist.last_abs
         THEN /\ calls' = <<[target |-> "env", op |-> "reset", action |-> None]>>
              /\ Len(_state') = _history_length
              /\ \A i \in 1..Len(_state') :
                   _state'[i] = preprocess_frame(ret'.sim_obs, grey_and_rescale)
              /\ _lives' = _max_lives
         ELSE /\ calls' = <<>>
              /\ _state' = _state
              /\ _lives' = _lives]_vars

C2_Witness ==
  /\ ret.op = "reset" /\ ret.path = "soft" /\ calls = <<>>
  /\ hist.stepped /\ ~hist.last_abs /\ ~hist.stopped
  /\ _episode_ends_at_life /\ _lives < _max_lives

\* C3 as claimed: after every reset the buffer holds history_length copies of
\* one frame and the returned observation is that stack.
C3_AsClaimed ==
  ret.op = "reset" =>
    /\ Len(_state) = _history_length
    /\ \A i, j \in 1..Len(_state) : _state[i] = _state[j]
    /\ ret.obs = _state

\* C3 as amended: after every reset the buffer has length history_length and
\* is the observation returned; after a full reset all its slots equal the
\* preprocessed frame of the simulator reset.
C3_ColdStart ==
  ret.op = "reset" =>
    /\ Len(_state) = _history_length
    /\ ret.obs = _state
    /\ ret.path = "full" =>
         \A i \in 1..Len(_state) :
           _state[i] = preprocess_frame(ret.sim_obs, grey_and_rescale)

C3_Witness ==
  /\ ret.op = "reset" /\ ret.path = "full" /\ hist.stepped
  /\ _history_length >= 2 /\ ret.sim_obs = <<0, 2>>

\* C4: once reset was called the buffer has length history_length, and after
\* history_length + k steps in a row it is the preprocessed frames of the last
\* history_length steps, oldest first, which is the observation returned.
C4_Fifo ==
  /\ _current_no_op # None => Len(_state) = _history_length
  /\ (ret.op = "step" /\ Len(trace) >= _history_length) =>
       /\ \A i \in 1.._history_length :
            _state[i] = preprocess_frame(
                          LastFrames(trace, _history_length)[i], grey_and_rescale)
       /\ ret.obs = _state

C4_Witness ==
  /\ ret.op = "step" /\ _history_length >= 2
  /\ Len(trace) > _history_length
  /\ _state[1] # _state[_history_length]
  /\ trace[1] # trace[Len(trace) - _history_length + 1]

\* C5: a step issues to the simulator, in this order, one FIRE on self.env.env
\* iff force-fire was armed, one no-op on self.env.env per unit of the no-op
\* counter, then the caller's action on self.env; it leaves the counter at 0
\* and force-fire disarmed (unless the lives changed), returns the reward of
\* the caller's action alone and appends that action's frame alone.
C5_Priming ==
  [][ret'.op = "step" =>
       LET k == Len(calls')
           f == IF _force_fire THEN 1 ELSE 0
       IN /\ k = f + _current_no_op + 1
          /\ \A i \in 1..(k - 1) :
               /\ calls'[i].target = "env.env" /\ calls'[i].op = "step"
               /\ calls'[i].action = (IF i <= f THEN 1 ELSE 0)
          /\ calls'[k] = [target |-> "env", op |-> "step", action |-> ret'.action]
          /\ _current_no_op' = 0
          /\ (ret'.lives = _lives => ~_force_fire')
          /\ ret'.reward = ret'.sim_reward
          /\ Len(_state') = Len(_state)
          /\ \A i \in 1..(Len(_state) - 1) : _state'[i] = _state[i + 1]
          /\ _state'[Len(_state')] =
               preprocess_frame(ret'.sim_obs, grey_and_rescale)]_vars

C5_Witness ==
  /\ ret.op = "step" /\ frameskip /\ Len(calls) >= 3
  /\ calls[1].action = 1 /\ calls[2].action = 0
  /\ calls[Len(calls)].action = 2 /\ ret.reward > 0

\* C6: every no-op count a reset draws is in 0..max_no_op_actions, and the
\* first step after the reset issues exactly that many priming no-ops before
\* the caller's action (none when the count is 0).
C6_NoOp ==
  [][/\ ret'.op = "reset" =>
          (_current_no_op' >= 0 /\ _current_no_op' <= _max_no_op_actions)
     /\ (ret.op = "reset" /\ ret'.op = "step") =>
          Cardinality({i \in 1..(Len(calls') - 1) :
                         /\ calls'[i].target = "env.env"
                         /\ calls'[i].action = 0}) = ret.no_op]_vars

C6_Witness ==
  /\ ret.op = "step" /\ fire_is_1 /\ Len(calls) = _max_no_op_actions + 2
  /\ calls[1].action = 1
  /\ \A i \in 2..(Len(calls) - 1) : calls[i].action = 0

\* C16: after every step the stored lives count is the one the info of the
\* caller's action reported; a full reset sets it to the maximum read at
\* construction and a soft reset leaves it as it was.
C16_Lives ==
  [][/\ ret'.op = "step" => _lives' = ret'.lives
     /\ ret'.op = "reset" =>
          IF calls' # <<>> THEN _lives' = _max_lives ELSE _lives' = _lives]_vars

C16_Witness ==
  /\ ret.op = "step" /\ Len(calls) >= 3 /\ hist.stepped
  /\ ret.lives = 0 /\ _lives = 0 /\ _max_lives > 0 /\ ~ret.absorbing

\* A soft reset that kept a lives count below the maximum.
C16_SoftReset ==
  /\ ret.op = "reset" /\ calls = <<>> /\ _lives < _max_lives

\* The no-op steps among the priming steps of a call.
NoOps(cs) ==
  Cardinality({i \in 1..Len(cs) : cs[i].target = "env.env" /\ cs[i].action = 0})

C18_Countdown ==
  [][/\ ret'.op = "reset" => _current_no_op' >= 0
     /\ _current_no_op >= 0 => _current_no_op' >= 0
     /\ ret'.op = "step" =>
          /\ _current_no_op' = 0
          /\ trace = <<>> => NoOps(calls') = _current_no_op
          /\ trace # <<>> => NoOps(calls') = 0]_vars

C18_Witness ==
  /\ ret.op = "step" /\ Len(trace) >= 2 /\ _current_no_op = 0
  /\ _max_no_op_actions > 0 /\ NoOps(calls) = 0 /\ Len(calls) = 2
  /\ calls[1].action = 1

\* The first step after a reset that drew a positive count.
C18_Primed ==
  /\ ret.op = "step" /\ NoOps(calls) = _max_no_op_actions
  /\ _max_no_op_actions > 0 /\ _current_no_op = 0

\* C19: a reset made after stop() with no step in between takes the full
\* path: it resets the simulator, refills the buffer with one frame and
\* restores the lives to the maximum.
C19_StopRearms ==
  [][(ret'.op = "reset" /\ hist.stopped) =>
       /\ calls' = <<[target |-> "env", op |-> "reset", action |-> None]>>
       /\ Len(_state') = _history_length
       /\ \A i \in 1..Len(_state') :
            _state'[i] = preprocess_frame(ret'.sim_obs, grey_and_rescale)
       /\ _lives' = _max_lives]_vars

\* C20: with a 'NoFrameskip' name the skip of the wrapper is the history
\* length, and the simulator makes history_length raw steps for the action
\* of a step, fewer only when the last of them reported absorbing.
C20_SkipIsHistory ==
  frameskip =>
    /\ _skip = _history_length
    /\ ret.op = "step" =>
         \/ ret.issued = _history_length
         \/ ret.issued >= 1 /\ ret.issued < _history_length /\ ret.sim_absorbing

C20_Witness ==
  /\ frameskip /\ _history_length = 2 /\ ret.op = "step"
  /\ ret.issued = 2 /\ ~ret.sim_absorbing /\ hist.stepped

\* A step cut short by an absorbing raw step.
C20_Short ==
  /\ frameskip /\ _history_length = 2 /\ ret.op = "step"
  /\ ret.issued = 1 /\ ret.sim_absorbing

(***************************************************************************)
(* Properties of the frame-skip wrapper                                    *)
(***************************************************************************)
\* The pooling of the last two frames the raw steps of one wrapped step
\* produced (of the only frame when there was one raw step).
PoolOfLastTwo(issued, pooling) ==
  LET n == Len(issued)
      a == issued[IF n >= 2 THEN n - 1 ELSE n].result.obs
      b == issued[n].result.obs
  IN IF pooling THEN [c \in 1..2 |-> IF a[c] >= b[c] THEN a[c] ELSE b[c]]
     ELSE [c \in 1..2 |-> (a[c] + b[c]) \div 2]

\* C7: the frame a wrapped step returns is the element-wise maximum (or
\* average) of the last two raw frames its own raw steps produced, also when
\* the loop ends early or the step follows a reset.
C7_PooledFrame ==
  ret.op = "skip_step" => ret.sim_obs = PoolOfLastTwo(calls, _max_pooling)

RECURSIVE SumRewards(_)
SumRewards(issued) ==
  IF issued = <<>> THEN 0
  ELSE issued[1].result.reward + SumRewards(Tail(issued))

\* C8: a wrapped step issues raw steps with the caller's action until one
\* reports absorbing or skip of them were issued, and returns the sum of
\* their rewards with the absorbing flag and the info of the last of them.
C8_RewardAndStop ==
  ret.op = "skip_step" =>
    LET n == Len(calls)
    IN /\ n >= 1 /\ n <= _skip
       /\ \A i \in 1..n : calls[i].action = ret.action
       /\ \A i \in 1..(n - 1) : ~calls[i].result.absorbing
       /\ n < _skip => calls[n].result.absorbing
       /\ ret.sim_reward = SumRewards(calls)
       /\ ret.sim_absorbing = calls[n].result.absorbing
       /\ ret.lives = calls[n].result.lives

C8_Witness ==
  /\ ret.op = "skip_step" /\ _skip = 4 /\ Len(calls) = 2
  /\ calls[1].result.reward = 1 /\ calls[2].result.reward = 2
  /\ calls[1].result.lives # calls[2].result.lives
  /\ ret.sim_reward = 3 /\ ret.sim_absorbing

\* The example of the specification: raw rewards 1, 0, 0, 2 under skip 4.
C8_Example ==
  /\ ret.op = "skip_step" /\ _skip = 4 /\ Len(calls) = 4
  /\ [i \in 1..4 |-> calls[i].result.reward] = <<1, 0, 0, 2>>
  /\ ret.sim_reward = 3

(***************************************************************************)
(* Properties of the Gym adapter                                           *)
(***************************************************************************)
\* C9: the time limit of the simulator is unbounded after construction, with
\* or without wrappers: no step reports the episode ended unless the
\* simulator itself ended it.
C9_NoTimeLimit ==
  (ret.op = "gym_step" /\ ret.absorbing) => ret.sim_absorbing

\* C10: after reset(s) the simulator's state is s and s is returned as a
\* vector; after reset() the simulator's own reset observation is returned.
C10_ResetState ==
  ret.op = "gym_reset" =>
    IF ret.action # None
      THEN SimState(env) = ret.action /\ ret.obs = <<ret.action>>
      ELSE ret.obs = <<ret.sim_obs>> /\ SimState(env) = ret.sim_obs

\* C11: stop() of either adapter returns whatever the simulator's close
\* does: no error raised by close leaves stop(), so stop() can be called any
\* number of times in a row.
C11_StopSwallows ==
  ret.op \in {"stop", "gym_stop"} => ~ret.raised

\* C12: a Gym.stop() made while the simulator's close was not yet invoked
\* invokes it, whatever the backend.
C12_StopReleases ==
  [][(ret'.op = "gym_stop" /\ ~hist.closed) =>
       \E i \in 1..Len(calls') : calls'[i].op = "close"]_vars

\* The space the adapter declares for an external space of a kind it converts.
Converted(ext, own) ==
  \/ ext.kind = "Discrete" /\ own = [kind |-> "Discrete", n |-> ext.n]
  \/ /\ ext.kind = "Box"
     /\ own = [kind |-> "Box", low |-> ext.low, high |-> ext.high,
               shape |-> ext.shape]

\* C13: a constructed Gym adapter declares Discrete(n) for an external
\* Discrete(n) and a Box of the same low, high and shape for an external Box,
\* for both spaces; with any other kind of action or observation space the
\* construction fails and no adapter exists.
C13_SpaceConversion ==
  /\ built = "ok" =>
       /\ Converted(spaces.action_space, mdp_info.action_space)
       /\ Converted(spaces.observation_space, mdp_info.observation_space)
  /\ (\E sp \in {spaces.action_space, spaces.observation_space} :
        sp.kind \notin {"Discrete", "Box"}) =>
       (built = "failed" /\ ret.op = "gym_init" /\ ret.raised)

C13_Witness ==
  /\ built = "ok" /\ ret.op = "gym_step"
  /\ spaces.action_space.kind = "Discrete" /\ mdp_info.action_space.n = 3
  /\ spaces.observation_space.kind = "Box"
  /\ mdp_info.observation_space.shape = <<2>>
  /\ mdp_info.observation_space.low # mdp_info.observation_space.high

\* A construction rejected for its observation space alone.
C13_Rejected ==
  /\ built = "failed" /\ ret.raised
  /\ spaces.action_space.kind = "Box"
  /\ spaces.observation_space.kind = "Dict"

\* C14: with a pybullet backend a render call reaches the simulator exactly
\* when no render call was made before, with any other backend every render
\* call reaches it; no call changes the backend flag, and reset, step and
\* stop leave the first-call flag alone.
C14_RenderPolicy ==
  [][/\ ret'.op = "gym_render" =>
          IF _not_pybullet \/ ~hist.rendered
            THEN Len(calls') = 1 /\ calls'[1].op = "render"
            ELSE calls' = <<>>
     /\ _not_pybullet' = _not_pybullet
     /\ ret'.op \in {"gym_reset", "gym_step", "gym_stop"} =>
          _first' = _first]_vars

C14_Witness ==
  /\ ~_not_pybullet /\ ret.op = "gym_render" /\ calls = <<>>
  /\ hist.rendered /\ hist.stopped /\ SimState(env) # None

\* The always-render policy: a second render call that reaches the simulator.
C14_WitnessAlways ==
  /\ _not_pybullet /\ ret.op = "gym_render" /\ Len(calls) = 1
  /\ ~_first /\ hist.stopped

(***************************************************************************)
(* Properties of the construction of the Atari adapter                     *)
(***************************************************************************)
\* The configurations of the adapter: self.env is a MaxAndSkip, the adapter
\* is augmented, or neither.
Selected(c) ==
  \/ c = "frameskip" /\ frameskip
  \/ c = "augmented" /\ augmented
  \/ c = "as_is" /\ ~frameskip /\ ~augmented

\* C15: a name with '-Augmented' asked for while atariari is missing makes
\* the construction fail, so no plain adapter exists for it; a constructed
\* adapter has exactly one of the three configurations, frame-skip for a
\* 'NoFrameskip' name, augmented for any other name with '-Augmented'.
C15_Configuration ==
  /\ (name.augmented /\ ~ATARI_ARI_INSTALLED) =>
       (built = "failed" /\ ret.raised)
  /\ built = "ok" =>
       /\ Cardinality({c \in {"frameskip", "augmented", "as_is"} :
                         Selected(c)}) = 1
       /\ frameskip <=> name.noframeskip
       /\ augmented <=> (~name.noframeskip /\ name.augmented)

C15_Witness ==
  /\ name = [known |-> TRUE, noframeskip |-> FALSE, augmented |-> TRUE]
  /\ ~ATARI_ARI_INSTALLED
  /\ built = "failed" /\ ret.op = "init" /\ ret.raised

\* An augmented adapter in use.
C15_Augmented ==
  /\ built = "ok" /\ augmented /\ ~frameskip /\ name.augmented
  /\ ATARI_ARI_INSTALLED /\ ret.op = "reset"

====
